---- MODULE Spec2Model ----
(***************************************************************************)
(* Book catalog service: the REST handlers of src/cmd/main.py (variant A,  *)
(* records addressed by the client-chosen field ID) and src/cmd/test.py    *)
(* (variant B, records addressed by the store-generated _id), over a       *)
(* MongoDB collection modelled as a sequence of documents in natural       *)
(* (insertion) order.                                                      *)
(***************************************************************************)
EXTENDS Integers, Sequences, FiniteSets, TLC

\* Number of requests handled in one behaviour.
MaxOps == 2
\* Number of hex digits of an ObjectId string (24 in bson, scaled down).
OidLen == 2

-----------------------------------------------------------------------------
(* JSON / BSON scalars: a value keeps its type, so "7" and 7 differ.       *)

S(x) == [type |-> "str", val |-> x]
N(x) == [type |-> "int", val |-> x]
\* A key that the JSON object does not carry.
Absent == [type |-> "absent", val |-> ""]

\* python str(): a string is returned as is, a number as its decimal text.
Str(v) == [type |-> "str", val |-> v.val]

\* `key in data`
Has(data, key) == data[key] # Absent
\* data.get(key, default)
Get(data, key, default) == IF Has(data, key) THEN data[key] ELSE default
\* `not data`: the JSON object has no key at all
IsEmpty(data) == \A k \in DOMAIN data : ~Has(data, k)

-----------------------------------------------------------------------------
(* ObjectId <-> string                                                     *)

HexDigits == <<"0", "1", "2", "3", "4", "5", "6", "7",
               "8", "9", "a", "b", "c", "d", "e", "f">>
UpperHexDigits == <<"0", "1", "2", "3", "4", "5", "6", "7",
                    "8", "9", "A", "B", "C", "D", "E", "F">>

RECURSIVE Pow16(_)
Pow16(n) == IF n = 0 THEN 1 ELSE 16 * Pow16(n - 1)

\* str(ObjectId): OidLen lowercase hex digits, most significant first.
Hex(oid) ==
    [i \in 1..OidLen |-> HexDigits[((oid \div Pow16(OidLen - i)) % 16) + 1]]

IsHexChar(c) == \E i \in 1..16 : HexDigits[i] = c \/ UpperHexDigits[i] = c
HexVal(c) == (CHOOSE i \in 1..16 : HexDigits[i] = c \/ UpperHexDigits[i] = c) - 1

\* ObjectId.is_valid for a str: exactly OidLen hex digits, either case.
IsValidObjectId(s) == Len(s) = OidLen /\ \A i \in 1..Len(s) : IsHexChar(s[i])

RECURSIVE OidOfPrefix(_, _)
OidOfPrefix(s, n) ==
    IF n = 0 THEN 0 ELSE 16 * OidOfPrefix(s, n - 1) + HexVal(s[n])

\* ObjectId(book_id) for a valid string
ObjectId(s) == OidOfPrefix(s, Len(s))

-----------------------------------------------------------------------------
(* pymongo collection primitives                                           *)

\* A document matches a query document when every queried field is equal.
Matches(doc, query) ==
    \A k \in DOMAIN query : k \in DOMAIN doc /\ doc[k] = query[k]

MatchingIndexes(coll, query) ==
    {i \in 1..Len(coll) : Matches(coll[i], query)}

\* collection.find_one(query) is truthy
FindOne(coll, query) == MatchingIndexes(coll, query) # {}

\* collection.insert_one(doc)
InsertOne(coll, doc) == Append(coll, doc)

\* {"$set": fields} applied to one document
SetFields(doc, fields) ==
    [k \in DOMAIN doc \cup DOMAIN fields |->
        IF k \in DOMAIN fields THEN fields[k] ELSE doc[k]]

\* collection.update_many(query, {"$set": fields})
UpdateMany(coll, query, fields) ==
    LET hit == MatchingIndexes(coll, query)
        new == [i \in 1..Len(coll) |->
                   IF i \in hit THEN SetFields(coll[i], fields) ELSE coll[i]]
    IN  [coll |-> new,
         matched_count |-> Cardinality(hit),
         modified_count |-> Cardinality({i \in hit : new[i] # coll[i]})]

\* collection.update_one(query, {"$set": fields}): the first match only
UpdateOne(coll, query, fields) ==
    LET hit == MatchingIndexes(coll, query)
        first == IF hit = {} THEN 0 ELSE CHOOSE i \in hit : \A j \in hit : i <= j
        new == [i \in 1..Len(coll) |->
                   IF i = first THEN SetFields(coll[i], fields) ELSE coll[i]]
    IN  [coll |-> new,
         matched_count |-> IF first = 0 THEN 0 ELSE 1,
         modified_count |-> IF first # 0 /\ new[first] # coll[first] THEN 1 ELSE 0]

\* A delete_one that ignores its filter and removes the first document.
DeleteOneUnfiltered(coll, query) ==
    [coll |-> IF Len(coll) = 0 THEN coll ELSE SubSeq(coll, 2, Len(coll)),
     deleted_count |-> IF Len(coll) = 0 THEN 0 ELSE 1]

\* collection.delete_one(query): the first match only
DeleteOne(coll, query) ==
    LET hit == MatchingIndexes(coll, query)
        first == IF hit = {} THEN 0 ELSE CHOOSE i \in hit : \A j \in hit : i <= j
    IN  [coll |-> IF first = 0 THEN coll
                  ELSE SubSeq(coll, 1, first - 1) \o SubSeq(coll, first + 1, Len(coll)),
         deleted_count |-> IF first = 0 THEN 0 ELSE 1]

-----------------------------------------------------------------------------
(* Variant A: main.py                                                      *)

start_dataA ==
    << [ID |-> S("example1"), BookName |-> S("The Vortex"),
        BookAuthor |-> S("Jose Eustasio Rivera"),
        BookEdition |-> S("958-30-0804-4"),
        BookPages |-> S("292"), BookYear |-> S("1924")],
       [ID |-> S("example2"), BookName |-> S("Frankenstein"),
        BookAuthor |-> S("Mary Shelley"),
        BookEdition |-> S("978-3-649-64609-9"),
        BookPages |-> S("280"), BookYear |-> S("1818")],
       [ID |-> S("example3"), BookName |-> S("The Black Cat"),
        BookAuthor |-> S("Edgar Allan Poe"),
        BookEdition |-> S("978-3-99168-238-7"),
        BookPages |-> S("280"), BookYear |-> S("1843")] >>

RECURSIVE SeedA(_, _)
\* prepare_data(): insert the first n seed books that are not there by ID
SeedA(coll, n) ==
    IF n = 0 THEN coll
    ELSE LET before == SeedA(coll, n - 1)
             book == start_dataA[n]
         IN  IF ~FindOne(before, [ID |-> book.ID])
             THEN InsertOne(before, book) ELSE before

prepare_dataA == SeedA(<< >>, Len(start_dataA))

\* find_all_books(): every document in the external vocabulary
find_all_booksA(coll) ==
    [i \in 1..Len(coll) |->
        [id |-> Str(coll[i].ID), title |-> coll[i].BookName,
         author |-> coll[i].BookAuthor, edition |-> coll[i].BookEdition,
         pages |-> coll[i].BookPages, year |-> coll[i].BookYear]]

required_fieldsA == <<"id", "title", "author">>

\* A presence check that looks at the first required field only.
FirstMissingHeadOnly(data, required) ==
    IF ~Has(data, required[1]) THEN required[1] ELSE ""

\* The first required field the payload lacks ("" when none is missing).
FirstMissing(data, required) ==
    LET miss == {i \in 1..Len(required) : ~Has(data, required[i])}
    IN  IF miss = {} THEN ""
        ELSE required[CHOOSE i \in miss : \A j \in miss : i <= j]

\* A document that drops the payload's edition.
BookOfANoEdition(id, data) ==
    [ID |-> id, BookName |-> data["title"], BookAuthor |-> data["author"],
     BookEdition |-> S(""),
     BookPages |-> Get(data, "pages", S("")),
     BookYear |-> Get(data, "year", S(""))]

\* the query of create_book's find_one, and the inserted document
BookOfA(id, data) ==
    [ID |-> id, BookName |-> data["title"], BookAuthor |-> data["author"],
     BookEdition |-> Get(data, "edition", S("")),
     BookPages |-> Get(data, "pages", S("")),
     BookYear |-> Get(data, "year", S(""))]

\* An existence check that never finds anything.
ExistsANever(coll, data) == FALSE

\* create_book's existence check
ExistsA(coll, data) == FindOne(coll, BookOfA(data["id"], data))

allowed_fields ==
    [id |-> "ID", title |-> "BookName", author |-> "BookAuthor",
     edition |-> "BookEdition", pages |-> "BookPages", year |-> "BookYear"]

\* update_book's update_fields: the allow-listed keys of the payload, but id
update_fieldsA(data) ==
    LET keys == {k \in DOMAIN allowed_fields : Has(data, k) /\ k # "id"}
    IN  [mk \in {allowed_fields[k] : k \in keys} |->
            data[CHOOSE k \in keys : allowed_fields[k] = mk]]

-----------------------------------------------------------------------------
(* Variant B: test.py                                                      *)

start_dataB ==
    << [BookName |-> S("The Vortex"), BookAuthor |-> S("Jose Eustasio Rivera"),
        BookISBN |-> S("958-30-0804-4"),
        BookPages |-> N("292"), BookYear |-> N("1924")],
       [BookName |-> S("Frankenstein"), BookAuthor |-> S("Mary Shelley"),
        BookISBN |-> S("978-3-649-64609-9"),
        BookPages |-> N("280"), BookYear |-> N("1818")],
       [BookName |-> S("The Black Cat"), BookAuthor |-> S("Edgar Allan Poe"),
        BookISBN |-> S("978-3-99168-238-7"),
        BookPages |-> N("280"), BookYear |-> N("1843")] >>

\* insert_one on a collection whose _id the store generates: the documents
\* get the ObjectIds 1, 2, 3, ... in insertion order.
WithId(doc, oid) ==
    [k \in DOMAIN doc \cup {"_id"} |-> IF k = "_id" THEN oid ELSE doc[k]]

RECURSIVE SeedB(_, _)
\* prepare_data(coll): insert the first n seed books not there by BookISBN;
\* the result is [coll, next], next being the next ObjectId to hand out
SeedB(st, n) ==
    IF n = 0 THEN st
    ELSE LET before == SeedB(st, n - 1)
             book == start_dataB[n]
         IN  IF ~FindOne(before.coll, [BookISBN |-> book.BookISBN])
             THEN [coll |-> InsertOne(before.coll, WithId(book, before.next)),
                   next |-> before.next + 1]
             ELSE before

prepare_dataB == SeedB([coll |-> << >>, next |-> 1], Len(start_dataB))

\* find_all_books(coll): every document, its _id converted to a string
find_all_booksB(coll) ==
    [i \in 1..Len(coll) |-> [coll[i] EXCEPT !["_id"] = Hex(coll[i]["_id"])]]

required_fieldsB == <<"BookName", "BookAuthor", "BookISBN", "BookPages", "BookYear">>

\* An existence check by BookName instead of BookISBN.
ExistsBByName(coll, data) == FindOne(coll, [BookName |-> data["BookName"]])

\* create_book's existence check
ExistsB(coll, data) == FindOne(coll, [BookISBN |-> data["BookISBN"]])

\* create_book's book_document
BookOfB(data) ==
    [BookName |-> data["BookName"], BookAuthor |-> data["BookAuthor"],
     BookISBN |-> data["BookISBN"], BookPages |-> data["BookPages"],
     BookYear |-> data["BookYear"]]

field_mapping ==
    [BookName |-> "BookName", BookAuthor |-> "BookAuthor", BookISBN |-> "BookISBN",
     BookPages |-> "BookPages", BookYear |-> "BookYear"]

\* update_book's update_fields
update_fieldsB(data) ==
    LET keys == {k \in DOMAIN field_mapping : Has(data, k)}
    IN  [mk \in {field_mapping[k] : k \in keys} |->
            data[CHOOSE k \in keys : field_mapping[k] = mk]]

-----------------------------------------------------------------------------
(* State                                                                   *)

VARIABLES
    variant,    \* "A" (main.py) or "B" (test.py): which service is deployed
    store,      \* the collection: a sequence of documents in natural order
    nextOid,    \* the next ObjectId the store generates (variant B)
    req,        \* the last request handled: [op, book_id, data]
    resp,       \* its response: [status, msg, detail]
    prev,       \* the collection as it was when that request arrived
    nops,       \* number of requests handled so far
    pc,         \* concurrent create requests: the position of each handler
    rdata,      \* concurrent create requests: the payload they both carry
    rstatus,    \* concurrent create requests: the status each returned
    rafter      \* rafter[t]: the other insert was done when t ran its check

vars == <<variant, store, nextOid, req, resp, prev, nops, pc, rdata, rstatus, rafter>>

Threads == {1, 2}

-----------------------------------------------------------------------------
(* Request inputs                                                          *)

NoData == [none |-> Absent]
NoId == S("")

\* POST bodies of variant A: each key absent or present; the id is the ID of
\* a seeded book, a fresh string or a JSON number
CreatePayloadsA ==
    [id : {Absent, S("example1"), S("new1"), N("7")},
     title : {Absent, S("Dune")},
     author : {Absent, S("Frank Herbert")},
     edition : {Absent, S("1st")},
     pages : {Absent, S("412")},
     year : {Absent, S("1965")}]

\* PUT bodies of variant A: the same fields, and a body that carries id only
UpdatePayloadsA ==
    {d \in CreatePayloadsA :
        d.id = Absent \/ (d.id = S("example1") /\ DOMAIN update_fieldsA(d) = {})}

\* <string:book_id> of the path: always a string
BookIdsA == {S("example1"), S("new1"), S("7")}
UpdateIdsA == {S("example1"), S("new1")}

\* POST bodies of variant B: the ISBN is that of a seeded book or a fresh one
CreatePayloadsB ==
    [BookName : {Absent, S("Dune")},
     BookAuthor : {Absent, S("Frank Herbert")},
     BookISBN : {Absent, S("978-3-649-64609-9"), S("0-441-17271-7")},
     BookPages : {Absent, N("412")},
     BookYear : {Absent, N("1965")}]

\* PUT bodies of variant B
UpdatePayloadsB == {d \in CreatePayloadsB : d.BookISBN # S("0-441-17271-7")}

\* a string that has the length of an ObjectId but is not hexadecimal
BadId == [i \in 1..OidLen |-> "z"]

\* <string:book_id> of the path: the id of a seeded book, an id no book has,
\* a malformed id
BookIdsB == {Hex(1), Hex(0), BadId}

-----------------------------------------------------------------------------
(* Handlers                                                                *)

Response(status, msg, detail) == [status |-> status, msg |-> msg, detail |-> detail]

\* Bookkeeping common to every handled request.
Handled(op, book_id, data) ==
    /\ nops < MaxOps
    /\ nops' = nops + 1
    /\ req' = [op |-> op, book_id |-> book_id, data |-> data]
    /\ prev' = store
    /\ UNCHANGED <<variant, pc, rdata, rstatus, rafter>>

\* main.py GET /api/books
api_booksA ==
    /\ variant = "A"
    /\ Handled("list", NoId, NoData)
    /\ resp' = Response(200, "books", find_all_booksA(store))
    /\ UNCHANGED <<store, nextOid>>

\* main.py POST /api/books
create_bookA(data) ==
    /\ variant = "A"
    /\ Handled("create", NoId, data)
    /\ UNCHANGED nextOid
    /\ IF FirstMissing(data, required_fieldsA) # ""
       THEN /\ resp' = Response(400, "Missing field", FirstMissing(data, required_fieldsA))
            /\ UNCHANGED store
       ELSE IF ExistsA(store, data)
       THEN /\ resp' = Response(409, "Book with characteristics already exists.", "")
            /\ UNCHANGED store
       ELSE /\ store' = InsertOne(store, BookOfA(data["id"], data))
            /\ resp' = Response(201, "Book created successfully.", "")

\* main.py PUT /api/books/<book_id>
update_bookA(book_id, data) ==
    /\ variant = "A"
    /\ Handled("update", book_id, data)
    /\ UNCHANGED nextOid
    /\ IF IsEmpty(data)
       THEN /\ resp' = Response(400, "Invalid JSON body.", "")
            /\ UNCHANGED store
       ELSE IF DOMAIN update_fieldsA(data) = {}
       THEN /\ resp' = Response(400, "No valid fields to update", "")
            /\ UNCHANGED store
       ELSE IF ~Has(data, "title") \/ ~Has(data, "author")
       THEN \* data["title"] / data["author"] raises KeyError, which no
            \* handler catches: Flask answers 500
            /\ resp' = Response(500, "KeyError",
                                IF ~Has(data, "title") THEN "title" ELSE "author")
            /\ UNCHANGED store
       ELSE IF FindOne(store, BookOfA(book_id, data))
       THEN /\ resp' = Response(409, "Book with characteristics already exists.", "")
            /\ UNCHANGED store
       ELSE LET result == UpdateMany(store, [ID |-> book_id], update_fieldsA(data))
            IN  /\ store' = result.coll
                /\ resp' = IF result.matched_count = 0
                           THEN Response(404, "Book not found.", "")
                           ELSE Response(200, "Book updated successfully.", "")

\* main.py DELETE /api/books/<book_id>
delete_bookA(book_id) ==
    /\ variant = "A"
    /\ Handled("delete", book_id, NoData)
    /\ UNCHANGED nextOid
    /\ LET result == DeleteOne(store, [ID |-> book_id])
       IN  /\ store' = result.coll
           /\ resp' = IF result.deleted_count = 0
                      THEN Response(404, "Book not found", "")
                      ELSE Response(200, "Deleted", result.deleted_count)

\* test.py GET /api/books
api_books_getB ==
    /\ variant = "B"
    /\ Handled("list", NoId, NoData)
    /\ resp' = Response(200, "books", find_all_booksB(store))
    /\ UNCHANGED <<store, nextOid>>

\* test.py POST /api/books
create_bookB(data) ==
    /\ variant = "B"
    /\ Handled("create", NoId, data)
    /\ IF IsEmpty(data)
       THEN /\ resp' = Response(400, "Invalid JSON body.", "")
            /\ UNCHANGED <<store, nextOid>>
       ELSE IF FirstMissing(data, required_fieldsB) # ""
       THEN /\ resp' = Response(400, "Missing required field", FirstMissing(data, required_fieldsB))
            /\ UNCHANGED <<store, nextOid>>
       ELSE IF ExistsB(store, data)
       THEN /\ resp' = Response(409, "Book with this ISBN already exists.", "")
            /\ UNCHANGED <<store, nextOid>>
       ELSE /\ store' = InsertOne(store, WithId(BookOfB(data), nextOid))
            /\ nextOid' = nextOid + 1
            /\ resp' = Response(201, "Book created successfully.", Hex(nextOid))

\* test.py PUT /api/books/<book_id>
update_bookB(book_id, data) ==
    /\ variant = "B"
    /\ Handled("update", book_id, data)
    /\ UNCHANGED nextOid
    /\ IF IsEmpty(data)
       THEN /\ resp' = Response(400, "Invalid JSON body.", "")
            /\ UNCHANGED store
       ELSE IF ~IsValidObjectId(book_id)
       THEN /\ resp' = Response(400, "Invalid Book ID format.", "")
            /\ UNCHANGED store
       ELSE IF DOMAIN update_fieldsB(data) = {}
       THEN /\ resp' = Response(400, "No valid fields to update provided.", "")
            /\ UNCHANGED store
       ELSE LET result == UpdateOne(store, [_id |-> ObjectId(book_id)], update_fieldsB(data))
            IN  /\ store' = result.coll
                /\ resp' =
                     IF result.matched_count = 0
                     THEN \* abort(404) raises inside the try block and the
                          \* `except Exception` clause turns it into a 500
                          Response(500, "Failed to update book due to a database error.", "")
                     ELSE IF result.modified_count = 0 /\ result.matched_count = 1
                     THEN Response(200, "Book found, but no changes were applied (data was identical).", book_id)
                     ELSE Response(200, "Book updated successfully.", book_id)

\* test.py DELETE /api/books/<book_id>
delete_bookB(book_id) ==
    /\ variant = "B"
    /\ Handled("delete", book_id, NoData)
    /\ UNCHANGED nextOid
    /\ IF ~IsValidObjectId(book_id)
       THEN /\ resp' = Response(400, "Invalid Book ID format.", "")
            /\ UNCHANGED store
       ELSE LET result == DeleteOne(store, [_id |-> ObjectId(book_id)])
            IN  /\ store' = result.coll
                /\ resp' = IF result.deleted_count = 0
                           THEN Response(404, "Book not found", "")
                           ELSE Response(200, "Deleted", result.deleted_count)

-----------------------------------------------------------------------------
(* Specification: requests handled one at a time                           *)

\* The state after `prepare_data()` on an empty database, before any request.
Seeded ==
    /\ variant \in {"A", "B"}
    /\ store = IF variant = "A" THEN prepare_dataA ELSE prepare_dataB.coll
    /\ nextOid = IF variant = "A" THEN 1 ELSE prepare_dataB.next
    /\ prev = store

Init ==
    /\ Seeded
    /\ req = [op |-> "none", book_id |-> NoId, data |-> NoData]
    /\ resp = Response(0, "", "")
    /\ nops = 0
    /\ pc = [t \in Threads |-> "idle"]
    /\ rdata = NoData
    /\ rstatus = [t \in Threads |-> 0]
    /\ rafter = [t \in Threads |-> FALSE]

Next ==
    \/ api_booksA
    \/ \E data \in CreatePayloadsA : create_bookA(data)
    \/ \E book_id \in UpdateIdsA, data \in UpdatePayloadsA : update_bookA(book_id, data)
    \/ \E book_id \in BookIdsA : delete_bookA(book_id)
    \/ api_books_getB
    \/ \E data \in CreatePayloadsB : create_bookB(data)
    \/ \E book_id \in BookIdsB, data \in UpdatePayloadsB : update_bookB(book_id, data)
    \/ \E book_id \in BookIdsB : delete_bookB(book_id)

Spec == Init /\ [][Next]_vars

-----------------------------------------------------------------------------
(* Specification: two create requests with the same payload, handled       *)
(* concurrently. Each handler makes two separate calls to the store,       *)
(* find_one and insert_one; nothing orders the calls of different          *)
(* handlers.                                                               *)

Other(t) == CHOOSE u \in Threads : u # t

InitRace ==
    /\ Seeded
    /\ req = [op |-> "none", book_id |-> NoId, data |-> NoData]
    /\ resp = Response(0, "", "")
    /\ nops = 0
    /\ pc = [t \in Threads |-> "check"]
    /\ rdata \in IF variant = "A" THEN CreatePayloadsA ELSE CreatePayloadsB
    /\ rstatus = [t \in Threads |-> 0]
    /\ rafter = [t \in Threads |-> FALSE]

\* The handler answers without inserting.
Answer(t, status) ==
    /\ pc' = [pc EXCEPT ![t] = "done"]
    /\ rstatus' = [rstatus EXCEPT ![t] = status]

\* The validation passed and find_one found nothing: go on to the insert.
Pass(t) ==
    /\ pc' = [pc EXCEPT ![t] = "insert"]
    /\ UNCHANGED rstatus

Checked(t) ==
    /\ pc[t] = "check"
    /\ rafter' = [rafter EXCEPT ![t] = pc[Other(t)] = "done" /\ rstatus[Other(t)] = 201]
    /\ UNCHANGED <<variant, store, nextOid, req, resp, prev, nops, rdata>>

\* main.py create_book up to and including find_one
create_checkA(t) ==
    /\ variant = "A"
    /\ Checked(t)
    /\ IF FirstMissing(rdata, required_fieldsA) # "" THEN Answer(t, 400)
       ELSE IF ExistsA(store, rdata) THEN Answer(t, 409)
       ELSE Pass(t)

\* main.py create_book from insert_one on
create_insertA(t) ==
    /\ variant = "A"
    /\ pc[t] = "insert"
    /\ store' = InsertOne(store, BookOfA(rdata["id"], rdata))
    /\ Answer(t, 201)
    /\ UNCHANGED <<variant, nextOid, req, resp, prev, nops, rdata, rafter>>

\* test.py create_book up to and including find_one
create_checkB(t) ==
    /\ variant = "B"
    /\ Checked(t)
    /\ IF IsEmpty(rdata) \/ FirstMissing(rdata, required_fieldsB) # "" THEN Answer(t, 400)
       ELSE IF ExistsB(store, rdata) THEN Answer(t, 409)
       ELSE Pass(t)

\* test.py create_book from insert_one on
create_insertB(t) ==
    /\ variant = "B"
    /\ pc[t] = "insert"
    /\ store' = InsertOne(store, WithId(BookOfB(rdata), nextOid))
    /\ nextOid' = nextOid + 1
    /\ Answer(t, 201)
    /\ UNCHANGED <<variant, req, resp, prev, nops, rdata, rafter>>

NextRace ==
    \/ \E t \in Threads : create_checkA(t)
    \/ \E t \in Threads : create_insertA(t)
    \/ \E t \in Threads : create_checkB(t)
    \/ \E t \in Threads : create_insertB(t)

SpecRace == InitRace /\ [][NextRace]_vars

-----------------------------------------------------------------------------
(* Properties of the last handled request: req, resp, prev and store are   *)
(* the request, its response and the collection before and after it.       *)

AllPresent(data, required) == \A i \in 1..Len(required) : data[required[i]] # Absent

OrEmpty(v) == IF v = Absent THEN S("") ELSE v

\* the document a variant A payload describes
MappedA(data) ==
    [ID |-> data.id, BookName |-> data.title, BookAuthor |-> data.author,
     BookEdition |-> OrEmpty(data.edition), BookPages |-> OrEmpty(data.pages),
     BookYear |-> OrEmpty(data.year)]

\* the list() entry of that document
ListedA(data) ==
    [id |-> Str(data.id), title |-> data.title, author |-> data.author,
     edition |-> OrEmpty(data.edition), pages |-> OrEmpty(data.pages),
     year |-> OrEmpty(data.year)]

CreatedA == variant = "A" /\ req.op = "create" /\ AllPresent(req.data, required_fieldsA)
CreatedB == variant = "B" /\ req.op = "create" /\ AllPresent(req.data, required_fieldsB)

IdTakenA == \E i \in 1..Len(prev) : prev[i].ID = req.data.id
IsbnTakenB == \E i \in 1..Len(prev) : prev[i].BookISBN = req.data.BookISBN

Unchanged == store = prev

\* C1: a create whose payload carries every required field and whose id
\* (variant A) or BookISBN (variant B) no record carries returns 201, appends
\* exactly one record holding the payload's mapped values to an otherwise
\* unchanged store, and a list() issued next contains that record.
CreateFreshSucceeds ==
    /\ (CreatedA /\ ~IdTakenA) =>
          /\ resp.status = 201
          /\ store = Append(prev, MappedA(req.data))
          /\ \E j \in 1..Len(store) : find_all_booksA(store)[j] = ListedA(req.data)
    /\ (CreatedB /\ ~IsbnTakenB) =>
          /\ resp.status = 201
          /\ Len(store) = Len(prev) + 1
          /\ SubSeq(store, 1, Len(prev)) = prev
          /\ \A k \in DOMAIN req.data : store[Len(store)][k] = req.data[k]
          /\ \E j \in 1..Len(store) :
                /\ find_all_booksB(store)[j]["_id"] = resp.detail
                /\ \A k \in DOMAIN req.data : find_all_booksB(store)[j][k] = req.data[k]

\* A fresh numeric id was created in variant A and is listed as a string.
CreateFreshReached ==
    /\ CreatedA /\ ~IdTakenA /\ resp.status = 201
    /\ req.data.id = N("7") /\ req.data.edition = Absent
    /\ Len(store) = Len(prev) + 1

CreateMissingFieldRejected ==
    /\ (variant = "A" /\ req.op = "create" /\ ~AllPresent(req.data, required_fieldsA))
          => (resp.status = 400 /\ Unchanged)
    /\ (variant = "B" /\ req.op = "create" /\ ~AllPresent(req.data, required_fieldsB))
          => (resp.status = 400 /\ Unchanged)

\* Variant B answered 400 to a payload that lacks BookName and carries the
\* BookISBN of an existing record.
MissingFieldBeatsDuplicate ==
    /\ variant = "B" /\ req.op = "create" /\ resp.status = 400
    /\ req.data.BookName = Absent /\ req.data.BookISBN # Absent /\ IsbnTakenB

\* the records of prev a variant A / variant B update or delete addresses
AddressedA == {i \in 1..Len(prev) : prev[i].ID = req.book_id}
AddressedB ==
    IF IsValidObjectId(req.book_id)
    THEN {i \in 1..Len(prev) : prev[i]["_id"] = ObjectId(req.book_id)}
    ELSE {}

UpdatableKeysA == {"title", "author", "edition", "pages", "year"}
PresentA == {k \in UpdatableKeysA : req.data[k] # Absent}
PresentB == {k \in DOMAIN field_mapping : req.data[k] # Absent}

\* the store differs from prev at most in field key of the records in idx
OnlyChanged(idx, key) ==
    /\ Len(store) = Len(prev)
    /\ \A i \in 1..Len(prev) : \A k \in DOMAIN prev[i] :
          store[i][k] # prev[i][k] => (i \in idx /\ k = key)

\* C4: an update of an existing record whose payload contains exactly one
\* allow-listed field returns 200 and changes nothing but that field of the
\* addressed record.
UpdateSingleFieldOnly ==
    /\ (variant = "A" /\ req.op = "update" /\ AddressedA # {}
          /\ req.data.id = Absent /\ Cardinality(PresentA) = 1)
          => /\ resp.status = 200
             /\ \E k \in PresentA : OnlyChanged(AddressedA, allowed_fields[k])
    /\ (variant = "B" /\ req.op = "update" /\ AddressedB # {}
          /\ Cardinality(PresentB) = 1)
          => /\ resp.status = 200
             /\ \E k \in PresentB : OnlyChanged(AddressedB, field_mapping[k])

\* C5: an update addressed to a well-formed identifier that no record
\* carries, with a payload that maps to at least one allow-listed field,
\* returns 404 and leaves the store unchanged.
UpdateMissingNotFound ==
    /\ (variant = "A" /\ req.op = "update" /\ AddressedA = {} /\ PresentA # {})
          => (resp.status = 404 /\ Unchanged)
    /\ (variant = "B" /\ req.op = "update" /\ IsValidObjectId(req.book_id)
          /\ AddressedB = {} /\ PresentB # {})
          => (resp.status = 404 /\ Unchanged)

\* C6: an update of an existing record whose allow-listed payload values
\* all equal the record's current values returns 200 and leaves the store
\* unchanged; variant B says that no changes were applied.
UpdateNoChangeSucceeds ==
    /\ (variant = "A" /\ req.op = "update" /\ PresentA # {}
          /\ \E i \in AddressedA :
                \A k \in PresentA : prev[i][allowed_fields[k]] = req.data[k])
          => (resp.status = 200 /\ Unchanged)
    /\ (variant = "B" /\ req.op = "update" /\ PresentB # {}
          /\ \E i \in AddressedB :
                \A k \in PresentB : prev[i][field_mapping[k]] = req.data[k])
          => /\ resp.status = 200 /\ Unchanged
             /\ resp.msg = "Book found, but no changes were applied (data was identical)."

\* prev without its i-th record
Without(i) == SubSeq(prev, 1, i - 1) \o SubSeq(prev, i + 1, Len(prev))

\* C7: deleting an identifier that some record carries returns 200, reports
\* a count of 1, removes exactly one record and leaves the others as they
\* were, and a list() issued next contains no record with that identifier.
DeleteRemovesRecord ==
    /\ (variant = "A" /\ req.op = "delete" /\ AddressedA # {})
          => /\ resp.status = 200 /\ resp.detail = 1
             /\ \E i \in AddressedA : store = Without(i)
             /\ \A j \in 1..Len(store) : find_all_booksA(store)[j].id # req.book_id
    /\ (variant = "B" /\ req.op = "delete" /\ AddressedB # {})
          => /\ resp.status = 200 /\ resp.detail = 1
             /\ \E i \in AddressedB : store = Without(i)
             /\ \A j \in 1..Len(store) : find_all_booksB(store)[j]["_id"] # req.book_id

\* C8 (as stated): deleting an identifier that no record carries returns 404
\* and leaves the store unchanged.
DeleteMissingNotFound ==
    /\ (variant = "A" /\ req.op = "delete" /\ AddressedA = {})
          => (resp.status = 404 /\ Unchanged)
    /\ (variant = "B" /\ req.op = "delete" /\ AddressedB = {})
          => (resp.status = 404 /\ Unchanged)

\* C8 (amended): deleting a well-formed identifier that no record carries
\* returns 404 and leaves the store unchanged; in variant B an identifier
\* that is not a well-formed ObjectId string returns 400 and leaves the
\* store unchanged.
DeleteMissingWellFormedNotFound ==
    /\ (variant = "A" /\ req.op = "delete" /\ AddressedA = {})
          => (resp.status = 404 /\ Unchanged)
    /\ (variant = "B" /\ req.op = "delete" /\ IsValidObjectId(req.book_id)
          /\ AddressedB = {})
          => (resp.status = 404 /\ Unchanged)
    /\ (variant = "B" /\ req.op = "delete" /\ ~IsValidObjectId(req.book_id))
          => (resp.status = 400 /\ Unchanged)

\* Variant B answered 404 to the delete of a well-formed id no record has,
\* with books in the store.
DeleteMissingReached ==
    /\ variant = "B" /\ req.op = "delete" /\ resp.status = 404
    /\ IsValidObjectId(req.book_id) /\ AddressedB = {} /\ Len(prev) > 0

\* C9: with requests handled one at a time from the seeded store, no two
\* records share an ID (variant A) or a BookISBN (variant B).
UniqueIdentity ==
    \A i, j \in 1..Len(store) :
        i # j => IF variant = "A" THEN store[i].ID # store[j].ID
                 ELSE store[i].BookISBN # store[j].BookISBN

\* C10: of two concurrent creates with the same payload, one that runs its
\* existence check after the other has inserted returns 409 without
\* inserting; both return 201 only when each ran its check before the
\* other's insert, and the store then holds two records of the same identity.
RaceOnlyWhenInterleaved ==
    /\ \A t \in Threads : rafter[t] => (pc[t] = "done" /\ rstatus[t] = 409)
    /\ (\A t \in Threads : rstatus[t] = 201) =>
          /\ \A t \in Threads : ~rafter[t]
          /\ Len(store) = Len(prev) + 2
          /\ IF variant = "A"
             THEN store[Len(store)] = store[Len(store) - 1]
             ELSE store[Len(store)].BookISBN = store[Len(store) - 1].BookISBN

\* Both concurrent creates passed the check, inserted and returned 201.
RaceBothCreated ==
    /\ \A t \in Threads : pc[t] = "done" /\ rstatus[t] = 201
    /\ Len(store) = Len(prev) + 2
    /\ IF variant = "A"
       THEN store[Len(store)].ID = store[Len(store) - 1].ID
       ELSE store[Len(store)].BookISBN = store[Len(store) - 1].BookISBN

====
